---- MODULE Spec2Model ----
(***************************************************************************)
(* Model of app.py (Vinted buy/resell scanner):                            *)
(*   - the scoring engine (median, compute_net_profit, velocity_score,     *)
(*     risk_penalty, final_score, score_listing), a set of pure functions  *)
(*     apart from the wall clock velocity_score reads;                     *)
(*   - CollectorAsync._fetch, whose concurrent calls share one             *)
(*     asyncio.Semaphore.                                                  *)
(*                                                                         *)
(* Numbers.  Python floats are modelled in fixed point: money in mills     *)
(* (1/1000 of a currency unit), dimensionless factors in millionths.       *)
(* Every division rounds to the nearest unit, as a float operation rounds  *)
(* to the nearest float.  Time is counted in whole hours.                  *)
(***************************************************************************)
EXTENDS Integers, Sequences, FiniteSets, TLC

VARIABLES
    \* CollectorAsync
    concurrency,    \* self.concurrency
    sema_value,     \* self.sema._value
    sema_waiters,   \* self.sema._waiters: the tasks whose future is queued
    pc,             \* where each _fetch call stands
    outcome,        \* what the HTTP GET of each call ended with
    ret,            \* what each _fetch call returned
    \* scoring engine and its caller
    listing,        \* the Listing dict handed to score_listing
    now,            \* datetime.now(timezone.utc), in hours
    out,            \* the result of the latest score_listing call
    first,          \* the result of the first score_listing call
    t_first,        \* the clock at the first call
    t_last          \* the clock at the latest call

fetchVars == <<concurrency, sema_value, sema_waiters, pc, outcome, ret>>
scoreVars == <<listing, now, out, first, t_first, t_last>>
vars == <<fetchVars, scoreVars>>

None == "None"

(***************************************************************************)
(* CollectorAsync                                                          *)
(***************************************************************************)
DEFAULT_CONCURRENCY == 6

\* Bounds of the model: the URLs fetched concurrently, the largest
\* concurrency tried besides the default.
NumUrls == 4
MaxConcurrency == 2

Tasks == 1..NumUrls
Concurrencies == (1..MaxConcurrency) \cup {DEFAULT_CONCURRENCY}

\* What an HTTP GET can end with: a status code, or an exception of httpx.
StatusCodes == {200, 404}
Errors == {"timeout", "network"}
Pending == [kind |-> "pending", status |-> 0]
Response(code) == [kind |-> "response", status |-> code]
Raised(e) == [kind |-> e, status |-> 0]
Outcomes == {Response(c) : c \in StatusCodes} \cup {Raised(e) : e \in Errors}

\* asyncio.Semaphore.locked(): no permit left, or a waiter's future is still
\* queued (a woken waiter stays queued until its task resumes).
locked == sema_value = 0 \/ sema_waiters # <<>>

\* asyncio.Semaphore._wake_up_next(): the first queued future that is not done
\* takes a permit and is set done.
WakeUpNext(v, w, p) ==
    LET idx == {i \in 1..Len(w) : p[w[i]] = "waiting"}
    IN  IF idx = {}
        THEN [value |-> v, pc |-> p]
        ELSE LET i == CHOOSE k \in idx : \A j \in idx : k <= j
             IN  [value |-> v - 1, pc |-> [p EXCEPT ![w[i]] = "woken"]]

\* asyncio.Semaphore.release(), run by __aexit__ of "async with self.sema".
release(v, w, p) == WakeUpNext(v + 1, w, p)

Remove(w, t) == SelectSeq(w, LAMBDA x : x # t)

\* _fetch up to its first suspension without the gate: the GET is issued at once.
FetchStartNoGate(t) ==
    /\ pc[t] = "start"
    /\ pc' = [pc EXCEPT ![t] = "get"]
    /\ UNCHANGED <<concurrency, sema_value, sema_waiters, outcome, ret>>
    /\ UNCHANGED scoreVars

\* _fetch up to its first suspension: "async with self.sema" acquires a permit
\* and the GET is issued, or the call queues on the semaphore.
FetchStart(t) ==
    /\ pc[t] = "start"
    /\ IF ~locked
       THEN /\ sema_value' = sema_value - 1
            /\ pc' = [pc EXCEPT ![t] = "get"]
            /\ UNCHANGED sema_waiters
       ELSE /\ sema_waiters' = Append(sema_waiters, t)
            /\ pc' = [pc EXCEPT ![t] = "waiting"]
            /\ UNCHANGED sema_value
    /\ UNCHANGED <<concurrency, outcome, ret>>
    /\ UNCHANGED scoreVars

\* A woken waiter resumes in acquire(): its future leaves the queue, a spare
\* permit wakes the next waiter, and the GET is issued.
FetchResume(t) ==
    /\ pc[t] = "woken"
    /\ LET w == Remove(sema_waiters, t)
           p == [pc EXCEPT ![t] = "get"]
           s == IF sema_value > 0 THEN WakeUpNext(sema_value, w, p)
                ELSE [value |-> sema_value, pc |-> p]
       IN  /\ sema_waiters' = w
           /\ sema_value' = s.value
           /\ pc' = s.pc
    /\ UNCHANGED <<concurrency, outcome, ret>>
    /\ UNCHANGED scoreVars

\* The call ends with outcome o and value r, and __aexit__ releases the permit.
Finish(t, o, r) ==
    LET s == release(sema_value, sema_waiters, [pc EXCEPT ![t] = "done"])
    IN  /\ outcome' = [outcome EXCEPT ![t] = o]
        /\ ret' = [ret EXCEPT ![t] = r]
        /\ sema_value' = s.value
        /\ pc' = s.pc
        /\ UNCHANGED <<concurrency, sema_waiters>>
        /\ UNCHANGED scoreVars

\* The 200 branch returning without the release (a permit taken by hand and
\* given back only after the branch).
FetchReturnTextNoRelease(t) ==
    /\ pc[t] = "get"
    /\ outcome' = [outcome EXCEPT ![t] = Response(200)]
    /\ ret' = [ret EXCEPT ![t] = "text"]
    /\ pc' = [pc EXCEPT ![t] = "done"]
    /\ UNCHANGED <<concurrency, sema_value, sema_waiters>>
    /\ UNCHANGED scoreVars

\* The status test inverted: a 200 response yields no body.
FetchReturnTextInverted(t) ==
    /\ pc[t] = "get"
    /\ Finish(t, Response(200), None)

\* The GET answers 200: _fetch returns r.text.
FetchReturnText(t) ==
    /\ pc[t] = "get"
    /\ Finish(t, Response(200), "text")

\* The GET answers another status: _fetch returns None.
FetchNon200(t) ==
    /\ pc[t] = "get"
    /\ \E code \in StatusCodes \ {200} : Finish(t, Response(code), None)

\* The GET raises (timeout, connection error): _fetch returns None.
FetchError(t) ==
    /\ pc[t] = "get"
    /\ \E e \in Errors : Finish(t, Raised(e), None)

FetchStep(t) ==
    \/ FetchStart(t)
    \/ FetchResume(t)
    \/ FetchReturnText(t)
    \/ FetchNon200(t)
    \/ FetchError(t)

\* The state of the scoring side while only the collector runs.
ScoreIdle ==
    /\ listing = None
    /\ now = 0
    /\ out = None
    /\ first = None
    /\ t_first = 0
    /\ t_last = 0

\* CollectorAsync.__init__, and one _fetch call per URL about to start.
CollectorInit(n) ==
    /\ concurrency = n
    /\ sema_value = n
    /\ sema_waiters = <<>>
    /\ pc = [t \in Tasks |-> "start"]
    /\ outcome = [t \in Tasks |-> Pending]
    /\ ret = [t \in Tasks |-> "pending"]

InitFetch ==
    /\ \E n \in Concurrencies : CollectorInit(n)
    /\ ScoreIdle

NextFetch ==
    \/ \E t \in Tasks : FetchStart(t)
    \/ \E t \in Tasks : FetchResume(t)
    \/ \E t \in Tasks : FetchReturnText(t)
    \/ \E t \in Tasks : FetchNon200(t)
    \/ \E t \in Tasks : FetchError(t)

SpecFetch == InitFetch /\ [][NextFetch]_vars

\* The event loop runs every ready task, and every GET ends (with a response
\* or, after the client's timeout, an error).
FairSpecFetch == SpecFetch /\ \A t \in Tasks : WF_vars(FetchStep(t))

Holding == {t \in Tasks : pc[t] \in {"woken", "get"}}
Outstanding == {t \in Tasks : pc[t] = "get"}
AllDone == \A t \in Tasks : pc[t] = "done"

\* C1: at every instant at most `concurrency` fetches have acquired the
\* semaphore and have their HTTP GET outstanding.
C1_AtMostNOutstanding ==
    /\ Cardinality(Outstanding) <= concurrency
    /\ Cardinality(Holding) <= concurrency

\* C1 witness: the gate is full (every permit backs an outstanding GET) while
\* another fetch is queued behind it.
C1_Witness ==
    /\ Cardinality(Outstanding) = concurrency
    /\ \E t \in Tasks : pc[t] = "waiting"

\* C2: _fetch never raises; it returns the text exactly on status 200 and the
\* None sentinel on any other status and on any network or timeout error, and
\* a failed fetch leaves the other fetches able to run on.
C2_FetchNeverRaises ==
    /\ \A t \in Tasks : ret[t] # "raised"
    /\ \A t \in Tasks :
          (pc[t] = "done") =>
              (/\ outcome[t] \in Outcomes
               /\ ret[t] = IF outcome[t] = Response(200) THEN "text" ELSE None)
    /\ \A t \in Tasks : (pc[t] # "done") => (ret[t] = "pending")
    /\ ((\E t \in Tasks : pc[t] = "done" /\ ret[t] = None) /\ ~AllDone)
          => ENABLED NextFetch

\* C2 witness: one fetch failed with a 404, one with an exception, and a third
\* returned its text.
C2_Witness ==
    /\ \E t \in Tasks : pc[t] = "done" /\ outcome[t] = Response(404) /\ ret[t] = None
    /\ \E t \in Tasks : pc[t] = "done" /\ outcome[t].kind \in Errors /\ ret[t] = None
    /\ \E t \in Tasks : pc[t] = "done" /\ outcome[t] = Response(200) /\ ret[t] = "text"

PermitsAccounted == sema_value + Cardinality(Holding) = concurrency

\* C3: every fetch holds exactly one permit from acquiring it to its return,
\* whatever the outcome, so the free permits are back at `concurrency` once all
\* fetches are done; and under fair scheduling every fetch, queued or not,
\* eventually acquires a permit and completes.
C3_PermitsReleasedAndLive ==
    /\ [](PermitsAccounted /\ sema_value >= 0)
    /\ [](AllDone => sema_value = concurrency)
    /\ \A t \in Tasks : (pc[t] = "waiting") ~> (pc[t] \in {"woken", "get"})
    /\ \A t \in Tasks : (pc[t] = "waiting") ~> (pc[t] = "done")
    /\ <>[]AllDone

\* C3 witness: a failed fetch has released its permit to a queued fetch, which
\* now holds it.
C3_Witness ==
    /\ \E t \in Tasks : pc[t] = "done" /\ ret[t] = None
    /\ \E t \in Tasks : pc[t] = "woken"
    /\ \E t \in Tasks : pc[t] = "waiting"
    /\ sema_value = 0

(***************************************************************************)
(* Scoring engine                                                          *)
(***************************************************************************)
\* Economic constants, in mills, and weights, in hundredths.
VINTED_FEES_PCT == 10
AVG_SHIPPING_COST == 5000
DEFAULT_REFURB_COST == 3000
MIN_PROFIT_DESIRABLE == 5000
MAX_PROFIT_CONSIDERED == 200000
WEIGHT_PROFIT == 40
WEIGHT_VELOCITY == 55
WEIGHT_RISK == 15

One == 1000 * 1000          \* 1.0 as a factor
OneAndHalf == (3 * One) \div 2
Mills(x) == x * 1000        \* a whole currency amount

\* Optional[float]
NoneF == [none |-> TRUE, v |-> 0]
Some(x) == [none |-> FALSE, v |-> x]

\* A float result, or an exception on its way up.
Ok(x) == [raised |-> FALSE, v |-> x]
Raise == [raised |-> TRUE, v |-> 0]

Max2(a, b) == IF a >= b THEN a ELSE b
Min2(a, b) == IF a <= b THEN a ELSE b

\* a / b for b > 0, rounded to the nearest unit.
DivRound(a, b) == (2 * a + b) \div (2 * b)

\* The first n decimals of r / b (0 <= r < b), the last one rounded.
RECURSIVE Decimals(_, _, _)
Decimals(r, b, n) ==
    IF n = 0
    THEN (IF 2 * r >= b THEN 1 ELSE 0)
    ELSE LET d == (10 * r) \div b
             rest == Decimals((10 * r) % b, b, n - 1)
         IN  IF n = 1 THEN d + rest
             ELSE d * (10 ^ (n - 1)) + rest

\* The float a / b (a >= 0, b > 0, same unit) in millionths, by long division.
QuotPos(a, b) == (a \div b) * One + Decimals(a % b, b, 6)
Quot(a, b) == IF a >= 0 THEN QuotPos(a, b) ELSE 0 - QuotPos(0 - a, b)

\* round(x, nd) of Python: to the nearest multiple of unit, ties to even.
round(x, unit) ==
    LET q == x \div unit
        r == x % unit
    IN  IF 2 * r < unit THEN q * unit
        ELSE IF 2 * r > unit THEN (q + 1) * unit
        ELSE IF q % 2 = 0 THEN q * unit ELSE (q + 1) * unit

\* clamp without its bounds.
clamp_unbounded(x, lo, hi) == x

clamp(x, lo, hi) == Max2(lo, Min2(hi, x))

\* sorted(): insertion sort.
RECURSIVE Insert(_, _)
Insert(s, x) ==
    IF s = <<>> THEN <<x>>
    ELSE IF x <= Head(s) THEN <<x>> \o s
    ELSE <<Head(s)>> \o Insert(Tail(s), x)

RECURSIVE sorted(_)
sorted(nums) ==
    IF nums = <<>> THEN <<>>
    ELSE Insert(sorted(Tail(nums)), Head(nums))

\* median reading the central elements of the list as given.
median_unsorted(nums) ==
    IF nums = <<>> THEN NoneF
    ELSE LET n == Len(nums)
         IN  IF n % 2 = 1 THEN Some(nums[n \div 2 + 1])
             ELSE Some(DivRound(nums[n \div 2] + nums[n \div 2 + 1], 2))

median(nums) ==
    IF nums = <<>> THEN NoneF
    ELSE LET s == sorted(nums)
             n == Len(s)
         IN  IF n % 2 = 1 THEN Some(s[n \div 2 + 1])
             ELSE Some(DivRound(s[n \div 2] + s[n \div 2 + 1], 2))

estimate_market_price(historical_prices) == median(historical_prices)

\* compute_net_profit testing the estimate for truth, so that an estimate of 0
\* counts as missing.
compute_net_profit_falsy(asking_price, market_price_est) ==
    IF market_price_est.none \/ market_price_est.v = 0 THEN NoneF
    ELSE LET gross == market_price_est.v - asking_price
             fees == DivRound(market_price_est.v * VINTED_FEES_PCT, 100)
             net == gross - fees - AVG_SHIPPING_COST - DEFAULT_REFURB_COST
         IN  Some(round(net, 10))

\* compute_net_profit with the spread taken the wrong way round.
compute_net_profit_swapped(asking_price, market_price_est) ==
    IF market_price_est.none THEN NoneF
    ELSE LET gross == asking_price - market_price_est.v
             fees == DivRound(market_price_est.v * VINTED_FEES_PCT, 100)
             net == gross - fees - AVG_SHIPPING_COST - DEFAULT_REFURB_COST
         IN  Some(round(net, 10))

compute_net_profit(asking_price, market_price_est) ==
    IF market_price_est.none THEN NoneF
    ELSE LET gross == market_price_est.v - asking_price
             fees == DivRound(market_price_est.v * VINTED_FEES_PCT, 100)
             net == gross - fees - AVG_SHIPPING_COST - DEFAULT_REFURB_COST
         IN  Some(round(net, 10))

\* price_ratio dividing whatever the estimate is.
price_ratio_unguarded(asking_price, m) ==
    IF m = 0 THEN Raise ELSE Ok(Quot(asking_price, m))

\* price_ratio of velocity_score: a division only by a positive estimate.
price_ratio(asking_price, m) ==
    IF m > 0 THEN Ok(Quot(asking_price, m)) ELSE Ok(One)

\* posted_at: absent, or a string that fromisoformat rejects ("garbage"),
\* parses without an offset ("naive") or parses with one ("aware", at hour).
NoPost == [kind |-> "none", hour |-> 0]
Garbage == [kind |-> "garbage", hour |-> 0]
Naive(h) == [kind |-> "naive", hour |-> h]
Aware(h) == [kind |-> "aware", hour |-> h]

\* The try block of velocity_score: ValueError of fromisoformat and TypeError
\* of subtracting a naive datetime are both caught.
recency_factor(posted_at, clock) ==
    IF posted_at.kind = "none" THEN 0
    ELSE IF posted_at.kind \in {"garbage", "naive"} THEN 0
    ELSE LET delta_hours == Max2(0, clock - posted_at.hour)
         IN  clamp(One - Quot(delta_hours, 24 * 7), 0, One)

\* math.log(x) in millionths for x = x20 / 20; ValueError unless x > 0.  The
\* values are those of math.log, for the arguments the listings below produce.
log20(x20) ==
    IF x20 <= 0 THEN Raise
    ELSE Ok(CASE x20 = 20 -> 0
              [] x20 = 120 -> 1791759
              [] x20 = 220 -> 2397895
              [] x20 = 320 -> 2772589
              [] x20 = 4020 -> 5303305
              [] x20 = 4120 -> 5327876)

\* velocity_score from the price ratio on.
velocity_from(ratio, posted_at, likes, views, brand_popularity, clock) ==
    LET lg == log20(20 + 20 * likes + views)
    IN  IF ratio.raised \/ lg.raised THEN Raise
        ELSE LET price_factor ==
                     Quot(clamp(OneAndHalf - ratio.v, 0, OneAndHalf),
                          OneAndHalf)
                 recency == recency_factor(posted_at, clock)
                 social == clamp(DivRound(lg.v, 5), 0, One)
                 brand == clamp(brand_popularity, 0, One)
                 score == DivRound(50 * price_factor + 30 * recency
                                   + 15 * social + 5 * brand, 100)
             IN  Ok(clamp(score, 0, One))

\* velocity_score without its early return on a missing estimate (the ratio
\* then defaults to 1.0).
velocity_score_no_early_return(asking_price, market_price_est, posted_at, likes, views, brand_popularity, clock) ==
    velocity_from(IF market_price_est.none THEN Ok(One)
                  ELSE price_ratio(asking_price, market_price_est.v),
                  posted_at, likes, views, brand_popularity, clock)

velocity_score(asking_price, market_price_est, posted_at, likes, views, brand_popularity, clock) ==
    IF market_price_est.none THEN Ok(0)
    ELSE velocity_from(price_ratio(asking_price, market_price_est.v),
                       posted_at, likes, views, brand_popularity, clock)

\* risk_penalty with "r = 0.35" for "r += 0.35".
risk_penalty_assign(photo_quality, ambiguous_brand, suspect_low_price) ==
    LET r1 == IF photo_quality < One \div 2 THEN 250000 ELSE 0
        r2 == IF ambiguous_brand THEN 350000 ELSE r1
        r3 == IF suspect_low_price THEN r2 + 250000 ELSE r2
    IN  clamp(r3, 0, One)

risk_penalty(photo_quality, ambiguous_brand, suspect_low_price) ==
    LET r1 == IF photo_quality < One \div 2 THEN 250000 ELSE 0
        r2 == IF ambiguous_brand THEN r1 + 350000 ELSE r1
        r3 == IF suspect_low_price THEN r2 + 250000 ELSE r2
    IN  clamp(r3, 0, One)

final_score(net_profit, velocity, risk) ==
    LET profit_norm ==
            IF net_profit.none THEN 0
            ELSE clamp(Quot(net_profit.v - MIN_PROFIT_DESIRABLE,
                            MAX_PROFIT_CONSIDERED - MIN_PROFIT_DESIRABLE),
                       0, One)
        raw == clamp(DivRound(WEIGHT_PROFIT * profit_norm
                              + WEIGHT_VELOCITY * velocity
                              - WEIGHT_RISK * risk, 100), 0, One)
    IN  [score |-> round(raw * 100, 10000),
         profit_normalized |-> round(profit_norm, 100),
         velocity |-> round(velocity, 100),
         risk |-> round(risk, 100),
         net_profit |-> IF net_profit.none THEN NoneF
                        ELSE Some(round(net_profit.v, 10))]

NoResult == [status |-> "none"]
RaisedResult == [status |-> "raised"]

score_listing(l, clock) ==
    LET asking == l.asking_price
        market_est == IF l.market_price_est.none
                      THEN estimate_market_price(l.historical_prices)
                      ELSE l.market_price_est
        netp == compute_net_profit(asking, market_est)
        vel == velocity_score(asking, market_est, l.posted_at, l.likes,
                              l.views, l.brand_popularity, clock)
        risk == risk_penalty(l.photo_quality, l.ambiguous_brand,
                             l.suspect_low_price)
    IN  IF vel.raised THEN RaisedResult
        ELSE LET final == final_score(netp, vel.v, risk)
             IN  [status |-> "ok",
                  asking_price |-> asking,
                  market_price_est |-> market_est,
                  net_profit |-> final.net_profit,
                  score |-> final.score,
                  components |-> [profit_normalized |-> final.profit_normalized,
                                  velocity |-> final.velocity,
                                  risk |-> final.risk],
                  raw |-> [velocity_raw |-> vel.v,
                           risk_raw |-> risk,
                           net_profit_raw |-> netp]]

(***************************************************************************)
(* The caller of score_listing: one Listing, scored at successive instants *)
(***************************************************************************)
\* Bounds of the model: the hours the clock runs, the longest price history.
MaxClock == 1
MaxHist == 3

Half == One \div 2

AskingPrices == {0, Mills(20), Mills(70)}
MarketEstimates == {NoneF, Some(0), Some(39990), Some(Mills(300))}
Histories == {<<>>, <<Mills(50), Mills(30), Mills(40)>>}
PostedAts == {NoPost, Garbage, Naive(0), Aware(0 - 200), Aware(0 - 83), Aware(1)}
LikeCounts == {0, 10, 200}
ViewCounts == {0, 100}
BrandPopularities == {800000, 1500000}
PhotoQualities == {200000, One}

\* The listings the scoring checks draw from.
Listings ==
    [asking_price : AskingPrices,
     market_price_est : MarketEstimates,
     historical_prices : Histories,
     posted_at : PostedAts,
     likes : LikeCounts,
     views : ViewCounts,
     brand_popularity : BrandPopularities,
     photo_quality : PhotoQualities,
     ambiguous_brand : BOOLEAN,
     suspect_low_price : BOOLEAN]

HistPrices == {Mills(1), Mills(2), Mills(3)}
SeqsUpTo(S, n) == UNION {[1..k -> S] : k \in 0..n}

\* The listings the market-estimate checks draw from: every price history up
\* to MaxHist, the other fields at the defaults of score_listing.
EstimateListings ==
    [asking_price : {Mills(20)},
     market_price_est : {NoneF, Some(0), Some(39990)},
     historical_prices : SeqsUpTo(HistPrices, MaxHist),
     posted_at : {NoPost},
     likes : {0},
     views : {0},
     brand_popularity : {Half},
     photo_quality : {One},
     ambiguous_brand : {FALSE},
     suspect_low_price : {FALSE}]

\* score_listing(listing), called at the current instant.
ScoreCall ==
    /\ out' = score_listing(listing, now)
    /\ t_last' = now
    /\ first' = IF first = NoResult THEN out' ELSE first
    /\ t_first' = IF first = NoResult THEN now ELSE t_first
    /\ UNCHANGED <<listing, now>>
    /\ UNCHANGED fetchVars

\* An hour passes.
Tick ==
    /\ now < MaxClock
    /\ now' = now + 1
    /\ UNCHANGED <<listing, out, first, t_first, t_last>>
    /\ UNCHANGED fetchVars

ScoreInit(L) ==
    /\ listing \in L
    /\ now = 0
    /\ out = NoResult
    /\ first = NoResult
    /\ t_first = 0
    /\ t_last = 0
    /\ CollectorInit(DEFAULT_CONCURRENCY)

Init == ScoreInit(Listings)
InitEstimate == ScoreInit(EstimateListings)

Next ==
    \/ ScoreCall
    \/ Tick

Spec == Init /\ [][Next]_vars
SpecEstimate == InitEstimate /\ [][Next]_vars

MarketAvailable(l) == ~l.market_price_est.none \/ l.historical_prices # <<>>

\* C4: the score lies in [0, 100] and each of velocity, risk and
\* profit_normalized in [0, 1], for every listing scored.
C4_ScoreBounded ==
    (out.status = "ok") =>
        /\ 0 <= out.score /\ out.score <= 100 * One
        /\ 0 <= out.components.velocity /\ out.components.velocity <= One
        /\ 0 <= out.components.risk /\ out.components.risk <= One
        /\ 0 <= out.components.profit_normalized
        /\ out.components.profit_normalized <= One
        /\ 0 <= out.raw.velocity_raw /\ out.raw.velocity_raw <= One
        /\ 0 <= out.raw.risk_raw /\ out.raw.risk_raw <= One

\* C4 witness: a risky listing without a market estimate, whose weighted sum
\* is negative before the clamp: its score is 0.
C4_Witness ==
    /\ out.status = "ok"
    /\ out.components.risk > 0
    /\ out.components.velocity = 0
    /\ out.score = 0

\* C5: net_profit is None exactly when market_price_est is not supplied and
\* historical_prices is empty, and then velocity and profit_normalized are 0.
C5_NetProfitNoneIffNoEstimate ==
    (out.status = "ok") =>
        /\ out.net_profit.none <=> ~MarketAvailable(listing)
        /\ out.raw.net_profit_raw.none <=> ~MarketAvailable(listing)
        /\ out.net_profit.none =>
              /\ out.components.velocity = 0
              /\ out.raw.velocity_raw = 0
              /\ out.components.profit_normalized = 0

\* C5 witness: a fresh, liked listing with no estimate scored: no net profit.
C5_Witness ==
    /\ out.status = "ok"
    /\ out.net_profit.none
    /\ listing.posted_at.kind = "aware"
    /\ listing.likes > 0

\* The recency factor reads the clock: the listing has a market estimate and a
\* posted_at that parses with its offset.
ReadsClock(l) == MarketAvailable(l) /\ l.posted_at.kind = "aware"

\* C6 as stated: two calls on the same listing, at any two moments, return
\* the same result.
C6_SameListingSameResult ==
    (first # NoResult) => (out = first)

\* C6 amended: two calls on the same listing return the same result when they
\* read the same clock or the listing's recency factor does not read the
\* clock; nothing else than the listing and the clock decides the result.
C6_SameResultUpToClock ==
    (first # NoResult /\ (t_first = t_last \/ ~ReadsClock(listing)))
        => (out = first)

\* C6 witness: a listing with an unparsable posted_at scored at two different
\* hours, with the same result.
C6_Witness ==
    /\ first # NoResult
    /\ t_first < t_last
    /\ listing.posted_at.kind = "garbage"
    /\ MarketAvailable(listing)
    /\ out = first

AllRisky(l) ==
    l.photo_quality < Half /\ l.ambiguous_brand /\ l.suspect_low_price

\* risk_penalty does not decrease when one more condition of l is met.
RiskMonotone(l, r) ==
    /\ ~l.ambiguous_brand =>
          risk_penalty(l.photo_quality, TRUE, l.suspect_low_price) >= r
    /\ ~l.suspect_low_price =>
          risk_penalty(l.photo_quality, l.ambiguous_brand, TRUE) >= r
    /\ ~(l.photo_quality < Half) =>
          \A q \in PhotoQualities :
              (q < Half) =>
                  risk_penalty(q, l.ambiguous_brand, l.suspect_low_price) >= r

\* C7 as stated: risk is monotone in each condition and is 1.0 when all three
\* conditions are met.
C7_RiskMaxIsOne ==
    (out.status = "ok") =>
        /\ RiskMonotone(listing, out.raw.risk_raw)
        /\ AllRisky(listing) => out.raw.risk_raw = One

\* C7 amended: risk is monotone in each condition, and its maximum, reached
\* when all three conditions are met, is 0.85 (the cap of 1.0 never binds).
C7_RiskMonotoneMax085 ==
    (out.status = "ok") =>
        /\ RiskMonotone(listing, out.raw.risk_raw)
        /\ out.raw.risk_raw <= 850000
        /\ AllRisky(listing) <=> out.raw.risk_raw = 850000
        /\ out.components.risk = out.raw.risk_raw

\* C7 witness: all three conditions met and scored.
C7_Witness ==
    /\ out.status = "ok"
    /\ AllRisky(listing)
    /\ out.components.risk = 850000

\* C8: with the market estimate and every other field fixed, a higher asking
\* price never gives a higher net_profit, profit_normalized or score.
C8_MonotoneInAskingPrice ==
    (out.status = "ok") =>
        \A a2 \in AskingPrices :
            (listing.asking_price <= a2) =>
                LET o2 == score_listing([listing EXCEPT !.asking_price = a2],
                                        t_last)
                IN  /\ o2.status = "ok"
                    /\ o2.net_profit.none = out.net_profit.none
                    /\ ~out.net_profit.none =>
                          o2.net_profit.v <= out.net_profit.v
                    /\ o2.components.profit_normalized
                          <= out.components.profit_normalized
                    /\ o2.score <= out.score

\* C8 witness: a scored listing with a market estimate for which a higher
\* asking price gives a strictly lower net profit and score.
C8_Witness ==
    /\ out.status = "ok"
    /\ ~out.net_profit.none
    /\ \E a2 \in AskingPrices :
          /\ listing.asking_price < a2
          /\ LET o2 == score_listing([listing EXCEPT !.asking_price = a2],
                                     t_last)
             IN  /\ o2.net_profit.v < out.net_profit.v
                 /\ o2.components.profit_normalized
                       < out.components.profit_normalized
                 /\ o2.score < out.score

\* C9: score_listing never raises on a listing of the data model: neither a
\* zero market estimate nor an unparsable timestamp makes it fail.
C9_NeverRaises ==
    /\ out.status # "raised"
    /\ first.status # "raised"
    /\ score_listing(listing, now).status = "ok"

\* C9 witness: a listing with a market estimate of 0 and an unparsable
\* posted_at has been scored.
C9_Witness ==
    /\ out.status = "ok"
    /\ listing.market_price_est = Some(0)
    /\ listing.posted_at.kind = "garbage"
    /\ listing.asking_price > 0

\* The k-th smallest element of h, by counting.
Kth(h, k) ==
    CHOOSE v \in {h[i] : i \in 1..Len(h)} :
        /\ Cardinality({i \in 1..Len(h) : h[i] < v}) < k
        /\ k <= Cardinality({i \in 1..Len(h) : h[i] <= v})

\* The median by rank: the middle element for an odd length, the mean of the
\* two central ones for an even length.
MedianByRank(h) ==
    LET n == Len(h)
    IN  IF n = 0 THEN NoneF
        ELSE IF n % 2 = 1 THEN Some(Kth(h, (n + 1) \div 2))
        ELSE Some(DivRound(Kth(h, n \div 2) + Kth(h, n \div 2 + 1), 2))

Reorderings(n) ==
    {f \in [1..n -> 1..n] : \A i, j \in 1..n : (f[i] = f[j]) => (i = j)}

\* C10: the market estimate is the supplied one when present and otherwise
\* the median of historical_prices: the middle element of the sorted list for
\* an odd length, the mean of the two central ones for an even length,
\* whatever the order of the list, and None for the empty list.
C10_MarketEstimateIsMedian ==
    (out.status = "ok") =>
        LET h == listing.historical_prices
        IN  /\ out.market_price_est =
                  IF ~listing.market_price_est.none
                  THEN listing.market_price_est
                  ELSE MedianByRank(h)
            /\ \A f \in Reorderings(Len(h)) :
                  median([i \in 1..Len(h) |-> h[f[i]]]) = median(h)
            /\ (h = <<>>) => median(h) = NoneF
            /\ (h = <<Mills(1), Mills(3)>>) => median(h) = Some(Mills(2))
            /\ (h = <<Mills(1), Mills(2), Mills(3)>>)
                  => median(h) = Some(Mills(2))

\* C10 witness: an unsorted history of three prices and no supplied estimate:
\* the estimate is the middle price.
C10_Witness ==
    /\ out.status = "ok"
    /\ listing.market_price_est.none
    /\ listing.historical_prices = <<Mills(3), Mills(1), Mills(2)>>
    /\ out.market_price_est = Some(Mills(2))
====
